---- MODULE Spec2Model ----
(***************************************************************************)
(* Ledger model of the shop-management backend: PaymentService             *)
(* (recordPayment, applyCreditToDebts, getDebtPaymentHistory),             *)
(* DebtService.addDebt and the debt that SalesService.createSale issues    *)
(* for a credit sale, over the Prisma tables Customer, Debt, Payment,      *)
(* PaymentAllocation and CreditTransaction.                                *)
(*                                                                         *)
(* Money is modelled with integers (the source uses JavaScript numbers);   *)
(* floating-point rounding is outside the model.  One customer row exists  *)
(* (id 1, owned by the calling user); id 2 is an id no row has.  Row ids   *)
(* are positions in the table sequences, which is also createdAt order.    *)
(***************************************************************************)
EXTENDS Integers, Sequences, FiniteSets, TLC

\* ---------------------------------------------------------------- bounds
MaxAmount == 3
MaxDebts == 3
MaxPayments == 2
MaxFailures == 1
\* the interleaved specifications (SpecFail, SpecConc) use their own bounds
MaxStepAmount == 2
MaxStepDebts == 2
MaxStepPayments == 2

\* --------------------------------------------------------------- inputs
\* the Customer rows of the calling user, and the ids a request may carry
Customers == {1}
CustomerIds == {1, 2}
Procs == {1, 2}
\* recordPayment amount as the interface promises it (amount >= 0)
PaymentAmounts == 0..MaxAmount
\* addDebt amount as the interface promises it (amount > 0)
DebtAmounts == 1..MaxAmount
\* createSale totalAmount of a credit sale
SaleAmounts == 1..MaxAmount
\* applyCreditToDebts creditAmount: <<>> is null (absent), <<v>> a number
CreditAmounts == {<<>>} \cup {<<v>> : v \in (-1)..MaxAmount}
\* neither the controllers nor the services reject an amount by its sign
AnyPaymentAmounts == (-1)..MaxAmount
AnyDebtAmounts == (-1)..MaxAmount
StepPaymentAmounts == 0..MaxStepAmount
StepAmounts == 1..MaxStepAmount
StepCreditAmounts == {<<>>} \cup {<<v>> : v \in (-1)..MaxStepAmount}
\* what prisma.debt.create does with a row that carries no originalAmount:
\* the generated client rejects it (schema: required, no default) or the
\* column default of the migration is stored
DebtCreateOutcomes == {"rejected", "columnDefault"}
\* what happens to africastalking.SMS.send when addDebt notifies
SmsDeliveries == {"delivered", "failed"}
OriginalAmountColumnDefault == 0

VARIABLES creditBalance, debts, payments, allocations, creditTransactions,
          last, pc, loc, failures, race

vars == <<creditBalance, debts, payments, allocations, creditTransactions,
          last, pc, loc, failures, race>>
ledger == <<creditBalance, debts, payments, allocations, creditTransactions>>

\* ------------------------------------------------------------- helpers
Min(a, b) == IF a <= b THEN a ELSE b
Max(a, b) == IF a >= b THEN a ELSE b

RECURSIVE SumAmounts(_)
SumAmounts(rows) ==
    IF rows = <<>> THEN 0 ELSE Head(rows).amount + SumAmounts(Tail(rows))

\* the five tables as one value
Store == [creditBalance |-> creditBalance, debts |-> debts,
          payments |-> payments, allocations |-> allocations,
          creditTransactions |-> creditTransactions]

SetStore(st) ==
    /\ creditBalance' = st.creditBalance
    /\ debts' = st.debts
    /\ payments' = st.payments
    /\ allocations' = st.allocations
    /\ creditTransactions' = st.creditTransactions

\* customer.findFirst({ where: { id, userId } })
\* mutant of CustomerExists: the lookup result is not tested
CustomerExistsAlways(customerId) == TRUE

CustomerExists(customerId) == customerId \in Customers

\* debt.findMany({ where: { customerId, isPaid: false }, orderBy: createdAt asc })
RECURSIVE UnpaidFrom(_, _)
UnpaidFrom(ds, i) ==
    IF i > Len(ds) THEN <<>>
    ELSE (IF ds[i].isPaid THEN <<>>
          ELSE <<[id |-> i, amount |-> ds[i].amount,
                  originalAmount |-> ds[i].originalAmount]>>)
         \o UnpaidFrom(ds, i + 1)

RECURSIVE Reverse(_)
Reverse(rows) ==
    IF rows = <<>> THEN <<>> ELSE Append(Reverse(Tail(rows)), Head(rows))

\* mutant of UnpaidDebts: orderBy createdAt desc
UnpaidDebtsNewestFirst(ds) == Reverse(UnpaidFrom(ds, 1))

UnpaidDebts(ds) == UnpaidFrom(ds, 1)

\* ------------------------------------------ PaymentService.recordPayment
TotalDebt(unpaidDebts) == SumAmounts(unpaidDebts)

EffectivePayment(amount, availableCredit) == amount + availableCredit

\* mutant of AppliedToDebt: Math.max for Math.min
AppliedToDebtMax(effectivePayment, totalDebt) == Max(effectivePayment, totalDebt)

AppliedToDebt(effectivePayment, totalDebt) == Min(effectivePayment, totalDebt)

\* mutant of NewCreditAmount: the debt is not deducted
NewCreditAmountWholePayment(effectivePayment, totalDebt) ==
    Max(0, effectivePayment)

\* mutant of NewCreditAmount: no Math.max(0, ...)
NewCreditAmountUnclamped(effectivePayment, totalDebt) ==
    effectivePayment - totalDebt

NewCreditAmount(effectivePayment, totalDebt) ==
    Max(0, effectivePayment - totalDebt)

\* mutant of RecordPaymentRow: creditAmount holds the new balance
RecordPaymentRowNewBalance(amount, availableCredit, appliedToDebt, newCreditAmount) ==
    [amount |-> amount,
     appliedToDebt |-> appliedToDebt - availableCredit,
     creditAmount |-> newCreditAmount,
     reference |-> "receipt"]

\* the row of payment.create
RecordPaymentRow(amount, availableCredit, appliedToDebt, newCreditAmount) ==
    [amount |-> amount,
     appliedToDebt |-> appliedToDebt - availableCredit,
     creditAmount |-> newCreditAmount - availableCredit,
     reference |-> "receipt"]

\* the FIFO loop: one step per debt visited, with the allocation it creates
\* and the debt.update it issues
RECURSIVE RecordPaymentLoop(_, _)
RecordPaymentLoop(unpaidDebts, remainingPaymentForDebt) ==
    IF unpaidDebts = <<>> \/ remainingPaymentForDebt <= 0 THEN <<>>
    ELSE LET debt == Head(unpaidDebts)
             amountToAllocate == Min(remainingPaymentForDebt, debt.amount)
             fullyPaid == amountToAllocate >= debt.amount
         IN  <<[debtId |-> debt.id, amount |-> amountToAllocate,
                fullyPaid |-> fullyPaid,
                newAmount |-> debt.amount - amountToAllocate]>>
             \o RecordPaymentLoop(Tail(unpaidDebts),
                    IF fullyPaid THEN remainingPaymentForDebt - debt.amount
                    ELSE 0)

\* mutant of DebtUpdate: a partial payment also rewrites originalAmount
DebtUpdateRebased(debt, step) ==
    IF step.fullyPaid THEN [debt EXCEPT !.isPaid = TRUE]
    ELSE [debt EXCEPT !.amount = step.newAmount,
                      !.originalAmount = step.newAmount]

\* debt.update of one loop step: a fully covered debt gets isPaid only,
\* a partially covered debt gets the reduced amount only
DebtUpdate(debt, step) ==
    IF step.fullyPaid THEN [debt EXCEPT !.isPaid = TRUE]
    ELSE [debt EXCEPT !.amount = step.newAmount]

RECURSIVE ApplyDebtUpdates(_, _)
ApplyDebtUpdates(ds, steps) ==
    IF steps = <<>> THEN ds
    ELSE LET step == Head(steps)
         IN  ApplyDebtUpdates(
                 [ds EXCEPT ![step.debtId] = DebtUpdate(@, step)],
                 Tail(steps))

\* mutant of AllocationRows: every create is issued twice
AllocationRowsTwice(paymentId, steps) ==
    [i \in 1..(2 * Len(steps)) |->
        [paymentId |-> paymentId, debtId |-> steps[(i + 1) \div 2].debtId,
         amount |-> steps[(i + 1) \div 2].amount]]

\* paymentAllocation.create of every loop step
AllocationRows(paymentId, steps) ==
    [i \in 1..Len(steps) |->
        [paymentId |-> paymentId, debtId |-> steps[i].debtId,
         amount |-> steps[i].amount]]

\* mutant of RecordPaymentCreditUsed: only the balance is tested
RecordPaymentCreditUsedAnyCredit(paymentId, amount, availableCredit, appliedToDebt, totalDebt) ==
    IF availableCredit > 0
    THEN <<[amount |-> 0 - Min(availableCredit, totalDebt),
            type |-> "APPLIED_TO_DEBT",
            relatedPaymentId |-> paymentId, relatedDebtId |-> 0]>>
    ELSE <<>>

\* "If credit was used, create credit transaction"
RecordPaymentCreditUsed(paymentId, amount, availableCredit, appliedToDebt, totalDebt) ==
    IF availableCredit > 0 /\ appliedToDebt > amount
    THEN <<[amount |-> 0 - Min(availableCredit, totalDebt),
            type |-> "APPLIED_TO_DEBT",
            relatedPaymentId |-> paymentId, relatedDebtId |-> 0]>>
    ELSE <<>>

\* "If overpayment created new credit, create credit transaction"
RecordPaymentCreditAdded(paymentId, availableCredit, newCreditAmount) ==
    IF newCreditAmount > availableCredit
    THEN <<[amount |-> newCreditAmount - availableCredit,
            type |-> "OVERPAYMENT_ADDED",
            relatedPaymentId |-> paymentId, relatedDebtId |-> 0]>>
    ELSE <<>>

\* every write of the transaction, computed from what the transaction read
\* (availableCredit, unpaidDebts) and applied to the tables st
RecordPaymentWrites(st, availableCredit, unpaidDebts, amount) ==
    LET totalDebt == TotalDebt(unpaidDebts)
        effectivePayment == EffectivePayment(amount, availableCredit)
        appliedToDebt == AppliedToDebt(effectivePayment, totalDebt)
        newCreditAmount == NewCreditAmount(effectivePayment, totalDebt)
        paymentId == Len(st.payments) + 1
        steps == RecordPaymentLoop(unpaidDebts, appliedToDebt)
    IN  [creditBalance |-> newCreditAmount,
         debts |-> ApplyDebtUpdates(st.debts, steps),
         payments |-> Append(st.payments,
             RecordPaymentRow(amount, availableCredit, appliedToDebt,
                              newCreditAmount)),
         allocations |-> st.allocations \o AllocationRows(paymentId, steps),
         creditTransactions |-> st.creditTransactions
             \o RecordPaymentCreditUsed(paymentId, amount, availableCredit,
                                        appliedToDebt, totalDebt)
             \o RecordPaymentCreditAdded(paymentId, availableCredit,
                                         newCreditAmount)]

\* ------------------------------------- PaymentService.applyCreditToDebts
\* creditAmount ? Math.min(creditAmount, creditBalance, totalDebt)
\*              : Math.min(creditBalance, totalDebt); null and 0 are falsy
CreditToApply(creditAmount, customerCredit, totalDebt) ==
    IF creditAmount # <<>> /\ creditAmount[1] # 0
    THEN Min(creditAmount[1], Min(customerCredit, totalDebt))
    ELSE Min(customerCredit, totalDebt)

ApplyCreditRow(creditToApply) ==
    [amount |-> 0, appliedToDebt |-> creditToApply,
     creditAmount |-> 0 - creditToApply, reference |-> "CREDIT_APPLICATION"]

RECURSIVE ApplyCreditLoop(_, _)
ApplyCreditLoop(unpaidDebts, remainingCredit) ==
    IF unpaidDebts = <<>> \/ remainingCredit <= 0 THEN <<>>
    ELSE LET debt == Head(unpaidDebts)
             amountToAllocate == Min(remainingCredit, debt.amount)
             fullyPaid == remainingCredit >= debt.amount
         IN  <<[debtId |-> debt.id, amount |-> amountToAllocate,
                fullyPaid |-> fullyPaid,
                newAmount |-> debt.amount - remainingCredit]>>
             \o ApplyCreditLoop(Tail(unpaidDebts),
                    IF fullyPaid THEN remainingCredit - debt.amount ELSE 0)

\* mutant of ApplyCreditTransaction: the amount is not negated
ApplyCreditTransactionPositive(paymentId, creditToApply) ==
    <<[amount |-> creditToApply, type |-> "APPLIED_TO_DEBT",
       relatedPaymentId |-> paymentId, relatedDebtId |-> 0]>>

ApplyCreditTransaction(paymentId, creditToApply) ==
    <<[amount |-> 0 - creditToApply, type |-> "APPLIED_TO_DEBT",
       relatedPaymentId |-> paymentId, relatedDebtId |-> 0]>>

ApplyCreditWrites(st, customerCredit, unpaidDebts, creditAmount) ==
    LET totalDebt == TotalDebt(unpaidDebts)
        creditToApply == CreditToApply(creditAmount, customerCredit, totalDebt)
        paymentId == Len(st.payments) + 1
        steps == ApplyCreditLoop(unpaidDebts, creditToApply)
    IN  [creditBalance |-> customerCredit - creditToApply,
         debts |-> ApplyDebtUpdates(st.debts, steps),
         payments |-> Append(st.payments, ApplyCreditRow(creditToApply)),
         allocations |-> st.allocations \o AllocationRows(paymentId, steps),
         creditTransactions |-> st.creditTransactions
             \o ApplyCreditTransaction(paymentId, creditToApply)]

\* mutant of ApplyCreditError: the balance is not tested
ApplyCreditErrorNoCreditCheck(customerId, customerCredit, unpaidDebts) ==
    IF ~CustomerExists(customerId) THEN "Customer not found"
    ELSE IF Len(unpaidDebts) = 0 THEN "Customer has no unpaid debts"
    ELSE "none"

\* mutant of ApplyCreditError: the unpaid debts are not tested
ApplyCreditErrorNoDebtCheck(customerId, customerCredit, unpaidDebts) ==
    IF ~CustomerExists(customerId) THEN "Customer not found"
    ELSE IF customerCredit <= 0 THEN "Customer has no credit balance"
    ELSE "none"

\* the errors applyCreditToDebts throws before it writes
ApplyCreditError(customerId, customerCredit, unpaidDebts) ==
    IF ~CustomerExists(customerId) THEN "Customer not found"
    ELSE IF customerCredit <= 0 THEN "Customer has no credit balance"
    ELSE IF Len(unpaidDebts) = 0 THEN "Customer has no unpaid debts"
    ELSE "none"

\* ---------------------------------------------------- DebtService.addDebt
\* prisma.debt.create({ data: { customerId, userId, amount, description,
\* dueDate } }): no originalAmount is passed
\* (issued: the amount the debt was created with, kept for the properties)
AddDebtRow(amount) ==
    [amount |-> amount, originalAmount |-> OriginalAmountColumnDefault,
     isPaid |-> FALSE, fromSale |-> FALSE, issued |-> amount]

\* mutant of CreditApplied: the whole balance is applied
CreditAppliedWholeBalance(customerCredit, amount) ==
    IF customerCredit > 0 THEN customerCredit ELSE 0

CreditApplied(customerCredit, amount) ==
    IF customerCredit > 0 THEN Min(customerCredit, amount) ELSE 0

\* debt.update of the new debt
AddDebtUpdateDebt(debt, amount, creditApplied) ==
    [debt EXCEPT !.amount = amount - creditApplied,
                 !.isPaid = (amount - creditApplied = 0)]

\* customer.update
AddDebtUpdateCustomer(customerCredit, creditApplied) ==
    customerCredit - creditApplied

\* creditTransaction.create
AddDebtCreditTransaction(debtId, creditApplied) ==
    [amount |-> 0 - creditApplied, type |-> "APPLIED_TO_DEBT",
     relatedPaymentId |-> 0, relatedDebtId |-> debtId]

\* all writes of a call in which every store call succeeds
AddDebtWrites(st, customerCredit, amount) ==
    LET debtId == Len(st.debts) + 1
        creditApplied == CreditApplied(customerCredit, amount)
        created == [st EXCEPT !.debts = Append(@, AddDebtRow(amount))]
    IN  IF creditApplied > 0
        THEN [created EXCEPT
                !.debts = [@ EXCEPT ![debtId] =
                              AddDebtUpdateDebt(@, amount, creditApplied)],
                !.creditBalance =
                    AddDebtUpdateCustomer(customerCredit, creditApplied),
                !.creditTransactions =
                    Append(@, AddDebtCreditTransaction(debtId, creditApplied))]
        ELSE created

\* static DEBT_THRESHOLD = 200; // SMS notification threshold
DEBT_THRESHOLD == 200

\* getTotalUnpaidDebt: debt.aggregate _sum amount where isPaid is false
GetTotalUnpaidDebt(ds) == SumAmounts(UnpaidDebts(ds))

\* "only if debt remains after credit application" and the total reaches
\* the threshold; the model counts money in hundreds
SmsAttempted(ds, finalDebtAmount) ==
    /\ finalDebtAmount > 0
    /\ GetTotalUnpaidDebt(ds) * 100 >= DEBT_THRESHOLD

\* mutant of NotificationError: the failure of the send is not caught
NotificationErrorThrown(delivery) ==
    IF delivery = "failed" THEN "SMS sending failed" ELSE "none"

\* the error addDebt is left with after await sendSMS(): sendSMS catches
\* what SMS.send throws and addDebt catches what sendSMS throws
NotificationError(delivery) == "none"

\* the object addDebt returns: the debt as read back, creditApplied and
\* finalAmount
AddDebtResult(ds, debtId, creditApplied, finalDebtAmount) ==
    [debt |-> ds[debtId], creditApplied |-> creditApplied,
     finalAmount |-> finalDebtAmount]

\* a call whose store calls all succeed: its writes, the notification, and
\* what it returns or throws
AddDebtOutcome(st, customerCredit, amount, delivery) ==
    LET after == AddDebtWrites(st, customerCredit, amount)
        debtId == Len(st.debts) + 1
        creditApplied == CreditApplied(customerCredit, amount)
        finalDebtAmount == amount - creditApplied
        attempted == SmsAttempted(after.debts, finalDebtAmount)
        error == IF attempted THEN NotificationError(delivery) ELSE "none"
    IN  [store |-> after,
         error |-> error,
         sms |-> IF attempted THEN delivery ELSE "notSent",
         result |-> IF error = "none"
                    THEN AddDebtResult(after.debts, debtId, creditApplied,
                                       finalDebtAmount)
                    ELSE <<>>]

\* ------------------------------- SalesService.createSale, saleType CREDIT
SaleDebtRow(totalAmount) ==
    [amount |-> totalAmount, originalAmount |-> totalAmount,
     isPaid |-> FALSE, fromSale |-> TRUE, issued |-> totalAmount]

\* ------------------------------- PaymentService.getDebtPaymentHistory
\* percentagePaid in hundredths of a percent:
\* Math.round((totalPaid / originalAmount * 100) * 100) / 100, 0 when
\* originalAmount is not positive
PercentagePaid(totalPaid, originalAmount) ==
    IF originalAmount > 0
    THEN (2 * totalPaid * 10000 + originalAmount) \div (2 * originalAmount)
    ELSE 0

\* ------------------------------------------------------- call bookkeeping
\* last: the most recent call that returned or threw, with what it read
\* (readCredit, readUnpaid), the balance in the store just before its own
\* write of it (prevCredit) and, for a call that a failing store call ended,
\* the tables at its first store call (base)
NoCall == [op |-> "none", error |-> "none", customerId |-> 0, amount |-> 0,
           creditAmount |-> <<>>, readCredit |-> 0, readUnpaid |-> <<>>,
           prevCredit |-> 0, base |-> <<>>, paymentId |-> 0, debtId |-> 0]

Call(op, error, customerId, amount, creditAmount, readCredit, readUnpaid, prevCredit, base, paymentId, debtId) ==
    [op |-> op, error |-> error, customerId |-> customerId,
     amount |-> amount, creditAmount |-> creditAmount,
     readCredit |-> readCredit, readUnpaid |-> readUnpaid,
     prevCredit |-> prevCredit,
     base |-> IF error = "failed" THEN base ELSE <<>>,
     paymentId |-> paymentId, debtId |-> debtId]

Idle == [op |-> "none", customerId |-> 0, amount |-> 0, creditAmount |-> <<>>,
         credit |-> 0, unpaid |-> <<>>, base |-> <<>>, debtId |-> 0,
         prevCredit |-> 0]

\* race: two payment transactions that read the same balance and queue from
\* the same tables (base), and which of the two have still to commit
NoRace == [active |-> FALSE, base |-> <<>>, first |-> <<>>, second |-> <<>>,
           pending |-> {}]

Init ==
    /\ creditBalance = 0
    /\ debts = <<>>
    /\ payments = <<>>
    /\ allocations = <<>>
    /\ creditTransactions = <<>>
    /\ last = NoCall
    /\ pc = [p \in Procs |-> "idle"]
    /\ loc = [p \in Procs |-> Idle]
    /\ failures = 0
    /\ race = NoRace

\* ------------------------------------------ calls that run undisturbed
recordPayment(customerId, amount) ==
    /\ Len(payments) < MaxPayments
    /\ IF ~CustomerExists(customerId)
       THEN /\ UNCHANGED ledger
            /\ last' = Call("recordPayment", "Customer not found", customerId,
                            amount, <<>>, 0, <<>>, creditBalance, Store, 0, 0)
       ELSE /\ SetStore(RecordPaymentWrites(Store, creditBalance,
                                            UnpaidDebts(debts), amount))
            /\ last' = Call("recordPayment", "none", customerId, amount, <<>>,
                            creditBalance, UnpaidDebts(debts), creditBalance,
                            Store, Len(payments) + 1, 0)
    /\ UNCHANGED <<pc, loc, failures, race>>

applyCreditToDebts(customerId, creditAmount) ==
    /\ Len(payments) < MaxPayments
    /\ LET error == ApplyCreditError(customerId, creditBalance,
                                     UnpaidDebts(debts))
       IN  IF error # "none"
           THEN /\ UNCHANGED ledger
                /\ last' = Call("applyCreditToDebts", error, customerId, 0,
                                creditAmount, creditBalance, UnpaidDebts(debts),
                                creditBalance, Store, 0, 0)
           ELSE /\ SetStore(ApplyCreditWrites(Store, creditBalance,
                                              UnpaidDebts(debts), creditAmount))
                /\ last' = Call("applyCreditToDebts", "none", customerId, 0,
                                creditAmount, creditBalance, UnpaidDebts(debts),
                                creditBalance, Store, Len(payments) + 1, 0)
    /\ UNCHANGED <<pc, loc, failures, race>>

addDebt(customerId, amount, outcome, delivery) ==
    /\ Len(debts) < MaxDebts
    /\ IF ~CustomerExists(customerId)
       THEN /\ UNCHANGED ledger
            /\ last' = Call("addDebt", "Customer not found", customerId,
                            amount, <<>>, 0, <<>>, creditBalance, Store, 0, 0)
       ELSE IF outcome = "rejected"
       THEN /\ UNCHANGED ledger
            /\ last' = Call("addDebt", "Argument originalAmount is missing",
                            customerId, amount, <<>>, creditBalance, <<>>,
                            creditBalance, Store, 0, 0)
       ELSE LET out == AddDebtOutcome(Store, creditBalance, amount, delivery)
            IN  /\ SetStore(out.store)
                /\ last' = Call("addDebt", out.error, customerId, amount,
                                <<>>, creditBalance, <<>>, creditBalance,
                                Store, 0, Len(debts) + 1)
                            @@ [sms |-> out.sms, result |-> out.result]
    /\ UNCHANGED <<pc, loc, failures, race>>

createSale(customerId, totalAmount) ==
    /\ Len(debts) < MaxDebts
    /\ IF ~CustomerExists(customerId)
       THEN /\ UNCHANGED ledger
            /\ last' = Call("createSale", "Customer not found", customerId,
                            totalAmount, <<>>, 0, <<>>, creditBalance, Store,
                            0, 0)
       ELSE /\ debts' = Append(debts, SaleDebtRow(totalAmount))
            /\ UNCHANGED <<creditBalance, payments, allocations,
                           creditTransactions>>
            /\ last' = Call("createSale", "none", customerId, totalAmount,
                            <<>>, creditBalance, <<>>, creditBalance, Store, 0,
                            Len(debts) + 1)
    /\ UNCHANGED <<pc, loc, failures, race>>

Next ==
    \/ \E c \in CustomerIds, a \in PaymentAmounts : recordPayment(c, a)
    \/ \E c \in CustomerIds, ca \in CreditAmounts : applyCreditToDebts(c, ca)
    \/ \E c \in CustomerIds, a \in DebtAmounts, o \in DebtCreateOutcomes,
          s \in SmsDeliveries : addDebt(c, a, o, s)
    \/ \E c \in CustomerIds, a \in SaleAmounts : createSale(c, a)

Spec == Init /\ [][Next]_vars

\* recordPayment, applyCreditToDebts and addDebt with amounts of either sign
NextAny ==
    \/ \E c \in CustomerIds, a \in AnyPaymentAmounts : recordPayment(c, a)
    \/ \E c \in CustomerIds, ca \in CreditAmounts : applyCreditToDebts(c, ca)
    \/ \E c \in CustomerIds, a \in AnyDebtAmounts, o \in DebtCreateOutcomes,
          s \in SmsDeliveries : addDebt(c, a, o, s)

SpecAny == Init /\ [][NextAny]_vars

\* ------------------------------------------ calls as interleaved steps
\* Each process is one request.  A $transaction reads at its begin step and
\* its writes become visible together at its commit step; addDebt runs
\* outside any transaction, so each of its store calls is a step of its own.
InPaymentTx(p) == pc[p] \in {"recordPaymentTx", "applyCreditTx"}

PaymentsInFlight == Cardinality({p \in Procs : InPaymentTx(p)})

DebtsInFlight == Cardinality({p \in Procs : pc[p] = "addDebtCreate"})

Finish(p, call) ==
    /\ pc' = [pc EXCEPT ![p] = "idle"]
    /\ loc' = [loc EXCEPT ![p] = Idle]
    /\ last' = call

\* a second transaction starts from exactly what a first, still open one read
RaceAtBegin(p, op, customerId, amount, creditAmount) ==
    IF \E q \in Procs \ {p} :
           /\ InPaymentTx(q)
           /\ loc[q].base = Store
    THEN LET q == CHOOSE q \in Procs \ {p} :
                      InPaymentTx(q) /\ loc[q].base = Store
         IN  [active |-> TRUE, base |-> Store,
              first |-> [op |-> loc[q].op, customerId |-> loc[q].customerId,
                         amount |-> loc[q].amount,
                         creditAmount |-> loc[q].creditAmount],
              second |-> [op |-> op, customerId |-> customerId,
                          amount |-> amount, creditAmount |-> creditAmount],
              pending |-> {p, q}]
    ELSE race

RaceAtCommit(p) ==
    IF race.active /\ p \in race.pending
    THEN [race EXCEPT !.pending = @ \ {p}]
    ELSE NoRace

RecordPaymentBegin(p, customerId, amount) ==
    /\ pc[p] = "idle"
    /\ Len(payments) + PaymentsInFlight < MaxStepPayments
    /\ UNCHANGED <<ledger, failures>>
    /\ IF ~CustomerExists(customerId)
       THEN /\ Finish(p, Call("recordPayment", "Customer not found",
                              customerId, amount, <<>>, 0, <<>>,
                              creditBalance, Store, 0, 0))
            /\ UNCHANGED race
       ELSE /\ pc' = [pc EXCEPT ![p] = "recordPaymentTx"]
            /\ loc' = [loc EXCEPT ![p] =
                          [Idle EXCEPT !.op = "recordPayment",
                                       !.customerId = customerId,
                                       !.amount = amount,
                                       !.credit = creditBalance,
                                       !.unpaid = UnpaidDebts(debts),
                                       !.base = Store]]
            /\ race' = RaceAtBegin(p, "recordPayment", customerId, amount, <<>>)
            /\ UNCHANGED last

RecordPaymentCommit(p) ==
    /\ pc[p] = "recordPaymentTx"
    /\ SetStore(RecordPaymentWrites(Store, loc[p].credit, loc[p].unpaid,
                                    loc[p].amount))
    /\ Finish(p, Call("recordPayment", "none", loc[p].customerId,
                      loc[p].amount, <<>>, loc[p].credit, loc[p].unpaid,
                      creditBalance, loc[p].base, Len(payments) + 1, 0))
    /\ race' = RaceAtCommit(p)
    /\ UNCHANGED failures

ApplyCreditBegin(p, customerId, creditAmount) ==
    /\ pc[p] = "idle"
    /\ Len(payments) + PaymentsInFlight < MaxStepPayments
    /\ UNCHANGED <<ledger, failures>>
    /\ LET error == ApplyCreditError(customerId, creditBalance,
                                     UnpaidDebts(debts))
       IN  IF error # "none"
           THEN /\ Finish(p, Call("applyCreditToDebts", error, customerId, 0,
                                  creditAmount, creditBalance,
                                  UnpaidDebts(debts), creditBalance, Store,
                                  0, 0))
                /\ UNCHANGED race
           ELSE /\ pc' = [pc EXCEPT ![p] = "applyCreditTx"]
                /\ loc' = [loc EXCEPT ![p] =
                              [Idle EXCEPT !.op = "applyCreditToDebts",
                                           !.customerId = customerId,
                                           !.creditAmount = creditAmount,
                                           !.credit = creditBalance,
                                           !.unpaid = UnpaidDebts(debts),
                                           !.base = Store]]
                /\ race' = RaceAtBegin(p, "applyCreditToDebts", customerId, 0,
                                      creditAmount)
                /\ UNCHANGED last

ApplyCreditCommit(p) ==
    /\ pc[p] = "applyCreditTx"
    /\ SetStore(ApplyCreditWrites(Store, loc[p].credit, loc[p].unpaid,
                                  loc[p].creditAmount))
    /\ Finish(p, Call("applyCreditToDebts", "none", loc[p].customerId, 0,
                      loc[p].creditAmount, loc[p].credit, loc[p].unpaid,
                      creditBalance, loc[p].base, Len(payments) + 1, 0))
    /\ race' = RaceAtCommit(p)
    /\ UNCHANGED failures

\* a store call inside the transaction throws: Prisma rolls the transaction
\* back and rethrows
TransactionRollback(p) ==
    /\ InPaymentTx(p)
    /\ failures < MaxFailures
    /\ failures' = failures + 1
    /\ UNCHANGED ledger
    /\ Finish(p, Call(loc[p].op, "failed", loc[p].customerId, loc[p].amount,
                      loc[p].creditAmount, loc[p].credit, loc[p].unpaid,
                      creditBalance, loc[p].base, 0, 0))
    /\ race' = NoRace

\* customer.findFirst
AddDebtBegin(p, customerId, amount) ==
    /\ pc[p] = "idle"
    /\ Len(debts) + DebtsInFlight < MaxStepDebts
    /\ UNCHANGED <<ledger, failures, race>>
    /\ IF ~CustomerExists(customerId)
       THEN Finish(p, Call("addDebt", "Customer not found", customerId,
                           amount, <<>>, 0, <<>>, creditBalance, Store, 0, 0))
       ELSE /\ pc' = [pc EXCEPT ![p] = "addDebtCreate"]
            /\ loc' = [loc EXCEPT ![p] =
                          [Idle EXCEPT !.op = "addDebt",
                                       !.customerId = customerId,
                                       !.amount = amount,
                                       !.credit = creditBalance,
                                       !.prevCredit = creditBalance,
                                       !.base = Store]]
            /\ UNCHANGED last

AddDebtCall(p, error) ==
    Call("addDebt", error, loc[p].customerId, loc[p].amount, <<>>,
         loc[p].credit, <<>>, loc[p].prevCredit, loc[p].base, 0, loc[p].debtId)

\* debt.create
AddDebtCreate(p, outcome) ==
    /\ pc[p] = "addDebtCreate"
    /\ UNCHANGED failures
    /\ IF outcome = "rejected"
       THEN /\ UNCHANGED <<ledger, race>>
            /\ Finish(p, AddDebtCall(p, "Argument originalAmount is missing"))
       ELSE /\ debts' = Append(debts, AddDebtRow(loc[p].amount))
            /\ UNCHANGED <<creditBalance, payments, allocations,
                           creditTransactions>>
            /\ race' = NoRace
            /\ IF CreditApplied(loc[p].credit, loc[p].amount) > 0
               THEN /\ pc' = [pc EXCEPT ![p] = "addDebtUpdateDebt"]
                    /\ loc' = [loc EXCEPT ![p].debtId = Len(debts) + 1]
                    /\ UNCHANGED last
               ELSE Finish(p, [AddDebtCall(p, "none") EXCEPT
                                  !.debtId = Len(debts) + 1])

\* debt.update
AddDebtStepUpdateDebt(p) ==
    /\ pc[p] = "addDebtUpdateDebt"
    /\ debts' = [debts EXCEPT ![loc[p].debtId] =
                    AddDebtUpdateDebt(@, loc[p].amount,
                        CreditApplied(loc[p].credit, loc[p].amount))]
    /\ pc' = [pc EXCEPT ![p] = "addDebtUpdateCustomer"]
    /\ race' = NoRace
    /\ UNCHANGED <<creditBalance, payments, allocations, creditTransactions,
                   last, loc, failures>>

\* customer.update
AddDebtStepUpdateCustomer(p) ==
    /\ pc[p] = "addDebtUpdateCustomer"
    /\ creditBalance' = AddDebtUpdateCustomer(loc[p].credit,
                            CreditApplied(loc[p].credit, loc[p].amount))
    /\ pc' = [pc EXCEPT ![p] = "addDebtCreditTransaction"]
    /\ loc' = [loc EXCEPT ![p].prevCredit = creditBalance]
    /\ race' = NoRace
    /\ UNCHANGED <<debts, payments, allocations, creditTransactions, last,
                   failures>>

\* creditTransaction.create, then the call returns
AddDebtStepCreditTransaction(p) ==
    /\ pc[p] = "addDebtCreditTransaction"
    /\ creditTransactions' = Append(creditTransactions,
           AddDebtCreditTransaction(loc[p].debtId,
               CreditApplied(loc[p].credit, loc[p].amount)))
    /\ Finish(p, AddDebtCall(p, "none"))
    /\ race' = NoRace
    /\ UNCHANGED <<creditBalance, debts, payments, allocations, failures>>

\* a store call of addDebt throws: the catch block rethrows, nothing is undone
AddDebtFail(p) ==
    /\ pc[p] \in {"addDebtCreate", "addDebtUpdateDebt",
                  "addDebtUpdateCustomer", "addDebtCreditTransaction"}
    /\ failures < MaxFailures
    /\ failures' = failures + 1
    /\ UNCHANGED <<ledger, race>>
    /\ Finish(p, AddDebtCall(p, "failed"))

\* createSale between the steps of other requests
CreateSaleStep(customerId, totalAmount) ==
    /\ Len(debts) + DebtsInFlight < MaxStepDebts
    /\ CustomerExists(customerId)
    /\ debts' = Append(debts, SaleDebtRow(totalAmount))
    /\ last' = Call("createSale", "none", customerId, totalAmount, <<>>,
                    creditBalance, <<>>, creditBalance, Store, 0,
                    Len(debts) + 1)
    /\ race' = NoRace
    /\ UNCHANGED <<creditBalance, payments, allocations, creditTransactions,
                   pc, loc, failures>>

Step(p) ==
    \/ \E c \in CustomerIds, a \in StepPaymentAmounts : RecordPaymentBegin(p, c, a)
    \/ RecordPaymentCommit(p)
    \/ \E c \in CustomerIds, ca \in StepCreditAmounts : ApplyCreditBegin(p, c, ca)
    \/ ApplyCreditCommit(p)
    \/ TransactionRollback(p)
    \/ \E c \in CustomerIds, a \in StepAmounts : AddDebtBegin(p, c, a)
    \/ \E o \in DebtCreateOutcomes : AddDebtCreate(p, o)
    \/ AddDebtStepUpdateDebt(p)
    \/ AddDebtStepUpdateCustomer(p)
    \/ AddDebtStepCreditTransaction(p)
    \/ AddDebtFail(p)

\* one request at a time, store calls may fail
NextFail ==
    \/ Step(1)
    \/ /\ pc[1] = "idle"
       /\ \E c \in CustomerIds, a \in StepAmounts : CreateSaleStep(c, a)

SpecFail == Init /\ [][NextFail]_vars

\* two requests at a time, store calls may fail
NextConc ==
    \/ \E p \in Procs : Step(p)
    \/ \E c \in CustomerIds, a \in StepAmounts : CreateSaleStep(c, a)

SpecConc == Init /\ [][NextConc]_vars
\* ----------------------------------------------------------- properties
RECURSIVE SumWhere(_, _, _)
SumWhere(rows, field, id) ==
    IF rows = <<>> THEN 0
    ELSE (IF Head(rows)[field] = id THEN Head(rows).amount ELSE 0)
         + SumWhere(Tail(rows), field, id)

AllocatedByPayment(paymentId) == SumWhere(allocations, "paymentId", paymentId)
AllocatedToDebt(debtId) == SumWhere(allocations, "debtId", debtId)

PaymentEvent ==
    /\ last.op \in {"recordPayment", "applyCreditToDebts"}
    /\ last.error = "none"

\* C1: the customer's creditBalance equals the sum of the amounts of the
\* customer's CreditTransaction rows, after any sequence of calls.
C1_AuditLedgerEquality == creditBalance = SumAmounts(creditTransactions)

\* C2: a debt is marked paid if and only if its stored amount is 0.
C2_PaidIffAmountZero ==
    \A i \in 1..Len(debts) : debts[i].isPaid <=> (debts[i].amount = 0)

\* C3: every debt satisfies 0 <= amount <= originalAmount.
C3_DebtBound ==
    \A i \in 1..Len(debts) :
        0 <= debts[i].amount /\ debts[i].amount <= debts[i].originalAmount

\* the debts that were unpaid when the last payment event read the queue
ReadUnpaidIds == {last.readUnpaid[k].id : k \in 1..Len(last.readUnpaid)}

ReadAmount(debtId) ==
    LET k == CHOOSE k \in 1..Len(last.readUnpaid) :
                 last.readUnpaid[k].id = debtId
    IN  last.readUnpaid[k].amount

AllocatedByEventTo(debtId) ==
    SumAmounts(SelectSeq(allocations,
        LAMBDA a : a.paymentId = last.paymentId /\ a.debtId = debtId))

ReceivedAllocation(debtId) ==
    \E k \in 1..Len(allocations) :
        /\ allocations[k].paymentId = last.paymentId
        /\ allocations[k].debtId = debtId

FullyPaidByEvent(debtId) ==
    /\ debts[debtId].isPaid
    /\ AllocatedByEventTo(debtId) = ReadAmount(debtId)

\* C4: FIFO allocation: in a payment event a debt receives an allocation
\* only if it was unpaid and every older unpaid debt (lower createdAt) is
\* fully paid by the same event, and at most one debt per event is left
\* partially paid.
C4_FifoAllocation ==
    PaymentEvent =>
        /\ \A d \in 1..Len(debts) : ReceivedAllocation(d) => d \in ReadUnpaidIds
        /\ \A d \in ReadUnpaidIds : ReceivedAllocation(d) =>
               \A older \in ReadUnpaidIds :
                   older < d => FullyPaidByEvent(older)
        /\ Cardinality({d \in ReadUnpaidIds :
               ReceivedAllocation(d) /\ ~debts[d].isPaid}) <= 1

\* C4 witness: three unpaid debts and a payment that pays the oldest in full,
\* the second in part and leaves the newest untouched (debts 1, 2, 1 and a
\* payment of 2 with no credit: allocations 1 and 1).
C4_Witness ==
    /\ PaymentEvent
    /\ last.op = "recordPayment"
    /\ last.readCredit = 0
    /\ Len(last.readUnpaid) = 3
    /\ LET d1 == last.readUnpaid[1].id
           d2 == last.readUnpaid[2].id
           d3 == last.readUnpaid[3].id
       IN  /\ d1 < d2 /\ d2 < d3
           /\ FullyPaidByEvent(d1)
           /\ ReceivedAllocation(d2) /\ ~debts[d2].isPaid
           /\ debts[d2].amount = ReadAmount(d2) - AllocatedByEventTo(d2)
           /\ debts[d2].amount > 0
           /\ ~ReceivedAllocation(d3)
           /\ debts[d3].amount = ReadAmount(d3) /\ ~debts[d3].isPaid

\* C5: conservation: what a payment event allocates to debts plus the credit
\* balance after it equals the new money received (0 for a credit
\* application) plus the credit balance before it.
C5_Conservation ==
    PaymentEvent =>
        AllocatedByPayment(last.paymentId) + creditBalance
            = last.amount + last.prevCredit

\* C6: the allocations of every Payment row written by recordPayment or
\* applyCreditToDebts sum to the Payment's stored appliedToDebt.
C6_AllocationsSumToApplied ==
    \A i \in 1..Len(payments) :
        AllocatedByPayment(i) = payments[i].appliedToDebt

\* C7: the allocations that reference a debt never sum to more than the
\* debt's originalAmount.
C7_AllocationsWithinOriginal ==
    \A d \in 1..Len(debts) : AllocatedToDebt(d) <= debts[d].originalAmount

\* C8: all-or-nothing: when a store call fails inside recordPayment,
\* applyCreditToDebts or addDebt, the five tables are exactly as they were
\* when the call started.
C8_AllOrNothing == last.error = "failed" => Store = last.base

\* a call run alone on the tables st
RunAlone(st, call) ==
    IF call.op = "recordPayment"
    THEN RecordPaymentWrites(st, st.creditBalance, UnpaidDebts(st.debts),
                             call.amount)
    ELSE IF ApplyCreditError(call.customerId, st.creditBalance,
                             UnpaidDebts(st.debts)) # "none"
    THEN st
    ELSE ApplyCreditWrites(st, st.creditBalance, UnpaidDebts(st.debts),
                           call.creditAmount)

\* the balance, the debts and what each debt was allocated
Outcome(st) ==
    [creditBalance |-> st.creditBalance, debts |-> st.debts,
     allocated |-> [d \in 1..Len(st.debts) |->
                       SumWhere(st.allocations, "debtId", d)]]

RaceOver == race.active /\ race.pending = {}

\* C9: no lost update: when two payment transactions that read the same
\* balance and debt queue have both committed, the balance, the debts and
\* the allocations are those of one of the two serial orders of the calls.
C9_NoLostUpdate ==
    RaceOver =>
        Outcome(Store) \in
            {Outcome(RunAlone(RunAlone(race.base, race.first), race.second)),
             Outcome(RunAlone(RunAlone(race.base, race.second), race.first))}

\* C10: addDebt is atomic: when addDebt writes the decremented balance, the
\* balance in the store is still the one it read, so no other call took
\* effect on the balance in between.
C10_AddDebtAtomic ==
    (/\ last.op = "addDebt"
     /\ last.error = "none"
     /\ CreditApplied(last.readCredit, last.amount) > 0)
        => last.prevCredit = last.readCredit

CreditApplicationEvent ==
    /\ last.op = "applyCreditToDebts"
    /\ last.error = "none"

\* C11: applyCreditToDebts applies min(override, creditBalance, total debt)
\* when an override is given (0 and negative values included) and
\* min(creditBalance, total debt) when none is given, and the balance
\* decreases by exactly that amount.
C11_CreditToApply ==
    CreditApplicationEvent =>
        LET total == SumAmounts(last.readUnpaid)
            expected ==
                IF last.creditAmount = <<>>
                THEN Min(last.readCredit, total)
                ELSE Min(last.creditAmount[1], Min(last.readCredit, total))
        IN  /\ payments[last.paymentId].appliedToDebt = expected
            /\ creditBalance = last.prevCredit - expected

AddDebtEvent ==
    /\ last.op = "addDebt"
    /\ last.error = "none"

CreditRowsOfDebt(debtId) ==
    SelectSeq(creditTransactions, LAMBDA t : t.relatedDebtId = debtId)

\* C12: a returned addDebt(amount) on a customer with balance c applies
\* min(c, amount) when c > 0: the new debt's amount is amount minus that,
\* it is paid exactly when c >= amount, the balance is c minus that, and one
\* APPLIED_TO_DEBT row of minus that, linked to the debt, is written; with
\* c = 0 nothing is applied and no CreditTransaction is written.
C12_AddDebtAutoCredit ==
    AddDebtEvent =>
        LET c == last.readCredit
            d == last.debtId
            applied == IF c <= last.amount THEN c ELSE last.amount
        IN  /\ debts[d].amount = last.amount - applied
            /\ debts[d].isPaid <=> (c >= last.amount)
            /\ creditBalance = c - applied
            /\ IF c > 0
               THEN CreditRowsOfDebt(d) =
                        <<[amount |-> 0 - applied, type |-> "APPLIED_TO_DEBT",
                           relatedPaymentId |-> 0, relatedDebtId |-> d]>>
               ELSE CreditRowsOfDebt(d) = <<>>

\* C12 witness: balance 2 and addDebt(3): debt left at 1, unpaid, balance 0
\* (the spec's 20 / 30 scenario, scaled).
C12_Witness ==
    /\ AddDebtEvent
    /\ last.readCredit = 2
    /\ last.amount = 3
    /\ debts[last.debtId].amount = 1
    /\ ~debts[last.debtId].isPaid
    /\ creditBalance = 0

\* C13: addDebt creates the Debt row with originalAmount equal to the
\* requested amount; it is never 0 or unset for a positive amount.
C13_OriginalAmountSet ==
    AddDebtEvent => debts[last.debtId].originalAmount = last.amount

\* C14: the percentage reported by getDebtPaymentHistory is exactly 100
\* (10000 hundredths) for every debt whose isPaid is true.
C14_PaidMeansHundredPercent ==
    \A d \in 1..Len(debts) :
        debts[d].isPaid =>
            PercentagePaid(AllocatedToDebt(d), debts[d].originalAmount) = 10000

CreditRowsOfPayment(paymentId) ==
    SelectSeq(creditTransactions, LAMBDA t : t.relatedPaymentId = paymentId)

Overpayment ==
    /\ last.op = "recordPayment"
    /\ last.error = "none"
    /\ last.readCredit = 0
    /\ last.amount > SumAmounts(last.readUnpaid)

\* C15: overpayment with no prior credit: every previously unpaid debt is
\* paid, the balance and the Payment's creditAmount are the excess, and the
\* one CreditTransaction written is OVERPAYMENT_ADDED for the excess.
C15_Overpayment ==
    Overpayment =>
        LET excess == last.amount - SumAmounts(last.readUnpaid)
        IN  /\ \A d \in ReadUnpaidIds : debts[d].isPaid
            /\ creditBalance = excess
            /\ payments[last.paymentId].creditAmount = excess
            /\ CreditRowsOfPayment(last.paymentId) =
                   <<[amount |-> excess, type |-> "OVERPAYMENT_ADDED",
                      relatedPaymentId |-> last.paymentId,
                      relatedDebtId |-> 0]>>

\* C15 witness: one debt of 2 paid with 3 leaves a balance of 1 (the spec's
\* 40 / 60 scenario, scaled).
C15_Witness ==
    /\ Overpayment
    /\ Len(last.readUnpaid) = 1
    /\ last.readUnpaid[1].amount = 2
    /\ last.amount = 3
    /\ creditBalance = 1

\* C16: a recordPayment of 0 for a customer without credit writes the
\* Payment row and nothing else: no allocation, no CreditTransaction, every
\* debt and the balance unchanged.
C16_ZeroPayment ==
    [][(/\ Len(payments') = Len(payments) + 1
        /\ last'.op = "recordPayment"
        /\ last'.amount = 0
        /\ last'.readCredit = 0)
       => /\ debts' = debts
          /\ allocations' = allocations
          /\ creditTransactions' = creditTransactions
          /\ creditBalance' = creditBalance]_vars

\* C16 witness: a payment of 0 was recorded without credit while debts were
\* unpaid.
C16_Witness ==
    /\ last.op = "recordPayment"
    /\ last.error = "none"
    /\ last.amount = 0
    /\ last.readCredit = 0
    /\ Len(last.readUnpaid) > 0
    /\ payments[last.paymentId].amount = 0

\* C17: the customer's creditBalance is never negative, whatever the sign
\* of the payment amounts, debt amounts and credit overrides of the calls.
C17_CreditBalanceNonNegative == creditBalance >= 0

\* C17 witness: a negative payment was recorded whose effective payment is
\* below the unpaid total, and the balance is 0.
C17_Witness ==
    /\ last.op = "recordPayment"
    /\ last.error = "none"
    /\ last.amount < 0
    /\ last.amount + last.readCredit < SumAmounts(last.readUnpaid)
    /\ payments[last.paymentId].amount < 0
    /\ creditBalance = 0

\* C18: the creditAmount stored on the Payment row of a recordPayment or
\* applyCreditToDebts call is the customer's balance after the call minus
\* the balance before it.
C18_CreditAmountIsDelta ==
    PaymentEvent =>
        payments[last.paymentId].creditAmount = creditBalance - last.prevCredit

\* C18 witness: a recordPayment that consumed credit; the stored
\* creditAmount is negative.
C18_Witness ==
    /\ last.op = "recordPayment"
    /\ last.error = "none"
    /\ last.amount > 0
    /\ creditBalance < last.prevCredit
    /\ payments[last.paymentId].creditAmount < 0

AllocationsOfPayment(paymentId) ==
    SelectSeq(allocations, LAMBDA a : a.paymentId = paymentId)

\* C19: a successful applyCreditToDebts call adds exactly one Payment row,
\* of amount 0, every allocation it adds is attached to that row, and it
\* adds exactly one CreditTransaction: APPLIED_TO_DEBT, linked to that
\* payment, its amount the negative of the credit applied (the decrease of
\* the balance).
C19_CreditApplicationRows ==
    [][(last' # last /\ last'.op = "applyCreditToDebts" /\ last'.error = "none")
       => LET pid == Len(payments) + 1
              n == Len(allocations)
          IN  /\ Len(payments') = pid
              /\ SubSeq(payments', 1, pid - 1) = payments
              /\ payments'[pid].amount = 0
              /\ Len(allocations') >= n
              /\ SubSeq(allocations', 1, n) = allocations
              /\ \A i \in (n + 1)..Len(allocations') :
                     allocations'[i].paymentId = pid
              /\ creditTransactions' =
                     Append(creditTransactions,
                            [amount |-> 0 - (creditBalance - creditBalance'),
                             type |-> "APPLIED_TO_DEBT",
                             relatedPaymentId |-> pid,
                             relatedDebtId |-> 0])]_vars

\* C19 witness: a credit application that covered two debts.
C19_Witness ==
    /\ CreditApplicationEvent
    /\ Len(AllocationsOfPayment(last.paymentId)) = 2
    /\ payments[last.paymentId].amount = 0
    /\ creditBalance < last.prevCredit

\* C20: recordPayment, applyCreditToDebts and addDebt called with the id of
\* a customer that does not exist fail with 'Customer not found' and leave
\* every Customer, Debt, Payment, PaymentAllocation and CreditTransaction
\* row as it was.
C20_CustomerNotFound ==
    [][(/\ last'.op \in {"recordPayment", "applyCreditToDebts", "addDebt"}
        /\ last'.customerId \notin Customers)
       => /\ last'.error = "Customer not found"
          /\ UNCHANGED ledger]_vars

\* C20 witness: a call for a customer that does not exist was refused while
\* the ledger held unpaid debts and credit.
C20_Witness ==
    /\ last.op \in {"recordPayment", "applyCreditToDebts", "addDebt"}
    /\ last.customerId \notin Customers
    /\ last.error = "Customer not found"
    /\ Len(UnpaidDebts(debts)) > 0
    /\ creditBalance > 0

\* C21: applyCreditToDebts for an existing customer whose creditBalance is
\* <= 0 fails with 'Customer has no credit balance', whatever the override
\* and the debts, and leaves the ledger unchanged.
C21_NoCredit ==
    [][(/\ last'.op = "applyCreditToDebts"
        /\ last'.customerId \in Customers
        /\ creditBalance <= 0)
       => /\ last'.error = "Customer has no credit balance"
          /\ UNCHANGED ledger]_vars

\* C21 witness: a credit application with an override was refused for lack
\* of credit while debts were unpaid.
C21_Witness ==
    /\ last.op = "applyCreditToDebts"
    /\ last.error = "Customer has no credit balance"
    /\ last.creditAmount # <<>>
    /\ Len(UnpaidDebts(debts)) > 0
    /\ creditBalance = 0

\* C22: applyCreditToDebts for an existing customer with positive
\* creditBalance and no unpaid debt fails with 'Customer has no unpaid
\* debts' and leaves the ledger unchanged.
C22_NoDebt ==
    [][(/\ last'.op = "applyCreditToDebts"
        /\ last'.customerId \in Customers
        /\ creditBalance > 0
        /\ UnpaidDebts(debts) = <<>>)
       => /\ last'.error = "Customer has no unpaid debts"
          /\ UNCHANGED ledger]_vars

\* C22 witness: a credit application was refused for lack of unpaid debts
\* while the customer had credit and a paid debt.
C22_Witness ==
    /\ last.op = "applyCreditToDebts"
    /\ last.error = "Customer has no unpaid debts"
    /\ creditBalance > 0
    /\ Len(debts) > 0
    /\ UnpaidDebts(debts) = <<>>

\* an addDebt call whose notification was attempted and failed
SmsFailed(call) ==
    /\ call.op = "addDebt"
    /\ "sms" \in DOMAIN call
    /\ call.sms = "failed"

\* C23: a failure of the notification never makes addDebt fail and never
\* changes what it wrote or returns: the tables, the outcome and the result
\* are those of the same call with the notification delivered.
C23_SmsFailureIsolated ==
    [][SmsFailed(last')
       => LET delivered == AddDebtOutcome(Store, creditBalance, last'.amount,
                                          "delivered")
          IN  /\ last'.error = "none"
              /\ Store' = delivered.store
              /\ last'.result = delivered.result]_vars

\* C23 witness: an addDebt whose notification failed returned a debt to
\* which credit had been applied.
C23_Witness ==
    /\ SmsFailed(last)
    /\ last.error = "none"
    /\ last.result.creditApplied > 0
    /\ last.result.finalAmount > 0
    /\ last.result.debt = debts[last.debtId]

\* C24: there is at most one PaymentAllocation row per (payment, debt)
\* pair.
C24_OneAllocationPerPair ==
    \A i, j \in 1..Len(allocations) :
        (/\ allocations[i].paymentId = allocations[j].paymentId
         /\ allocations[i].debtId = allocations[j].debtId) => i = j

\* C24 witness: one payment allocated to two debts, and one debt received
\* allocations of two payments.
C24_Witness ==
    /\ \E i, j \in 1..Len(allocations) :
           /\ allocations[i].paymentId = allocations[j].paymentId
           /\ allocations[i].debtId # allocations[j].debtId
    /\ \E i, j \in 1..Len(allocations) :
           /\ allocations[i].paymentId # allocations[j].paymentId
           /\ allocations[i].debtId = allocations[j].debtId

\* C25: across every step, the amount of an existing debt never increases
\* and a debt that is paid never becomes unpaid again.
C25_DebtMonotone ==
    [][\A d \in 1..Len(debts) :
           /\ debts'[d].amount <= debts[d].amount
           /\ debts[d].isPaid => debts'[d].isPaid]_vars

RecordPaymentEvent ==
    /\ last.op = "recordPayment"
    /\ last.error = "none"

CreditRowTypesOfPayment(paymentId) ==
    LET rows == CreditRowsOfPayment(paymentId)
    IN  {rows[i].type : i \in 1..Len(rows)}

\* C26: recordPayment (amount >= 0) writes an APPLIED_TO_DEBT
\* CreditTransaction linked to the payment exactly when the balance after
\* the call is lower than before, an OVERPAYMENT_ADDED one exactly when it
\* is higher, and never both.
C26_CreditRowMatchesChange ==
    (RecordPaymentEvent /\ last.amount >= 0) =>
        LET types == CreditRowTypesOfPayment(last.paymentId)
        IN  /\ "APPLIED_TO_DEBT" \in types <=> creditBalance < last.prevCredit
            /\ "OVERPAYMENT_ADDED" \in types <=> creditBalance > last.prevCredit
            /\ Len(CreditRowsOfPayment(last.paymentId)) <= 1

\* C26 witness: a payment with money that also consumed credit wrote one
\* APPLIED_TO_DEBT row.
C26_Witness ==
    /\ RecordPaymentEvent
    /\ last.amount > 0
    /\ creditBalance < last.prevCredit
    /\ CreditRowTypesOfPayment(last.paymentId) = {"APPLIED_TO_DEBT"}

\* C27: no PaymentAllocation row has amount 0: an unpaid debt whose amount
\* is 0 is skipped by recordPayment and applyCreditToDebts.
C27_NoZeroAllocation ==
    \A i \in 1..Len(allocations) : allocations[i].amount # 0

\* C28: no step changes the originalAmount of an existing debt.
C28_OriginalAmountImmutable ==
    [][\A d \in 1..Len(debts) :
           debts'[d].originalAmount = debts[d].originalAmount]_vars

\* C28 witness: a debt that was partly paid still has its face value.
C28_Witness ==
    \E d \in 1..Len(debts) :
        /\ ~debts[d].isPaid
        /\ AllocatedToDebt(d) > 0
        /\ debts[d].amount < debts[d].originalAmount
        /\ debts[d].originalAmount = debts[d].amount + AllocatedToDebt(d)

\* what is still owed on a debt: its amount while unpaid, 0 once paid
Outstanding(debt) == IF debt.isPaid THEN 0 ELSE debt.amount

\* the debt extinguished: issued amount minus outstanding amount, summed
\* over the debts
RECURSIVE DebtExtinguished(_)
DebtExtinguished(ds) ==
    IF ds = <<>> THEN 0
    ELSE Head(ds).issued - Outstanding(Head(ds)) + DebtExtinguished(Tail(ds))

C30_PerDebtReconciliation ==
    \A d \in 1..Len(debts) :
        ~debts[d].isPaid =>
            debts[d].originalAmount - debts[d].amount = AllocatedToDebt(d)
====
